---- MODULE Spec2Model ----
(***************************************************************************)
(* Model of the AY/YM chiptune replayer: the AYReplayer class               *)
(* (AY-Music/ayReplayer.js) and the lookahead frame scheduler of the page   *)
(* script (startFrames / stopFrames).                                       *)
(*                                                                          *)
(* Conventions                                                              *)
(*  - Times (ctx.currentTime, nextTime, env.lastUpdate, env.periodSec, spf, *)
(*    ahead) are held in microseconds as integers; the source holds them in *)
(*    seconds as doubles.  Arithmetic is exact.                             *)
(*  - Gains, user volumes, frequencies, envelope phase and level are exact  *)
(*    rationals [n |-> numerator, d |-> denominator > 0] in lowest terms.   *)
(*  - A register frame is the tuple regs; regs[k] of the source is          *)
(*    Reg(regs, k).                                                         *)
(*  - Volume arguments of setUserControls are numbers or numeric strings    *)
(*    (the page passes range-slider values) or are omitted.  A string is a  *)
(*    tuple of one-character strings.                                       *)
(*  - JavaScript runs every handler and every timer callback to completion: *)
(*    each is one action.  A callback of setInterval runs only while its    *)
(*    interval has not been cleared.                                        *)
(***************************************************************************)
EXTENDS Integers, Sequences, FiniteSets, TLC

(***************************************************************************)
(* Bounds of the model                                                      *)
(***************************************************************************)
\* longest Track of the transport specifications
MaxLen == 2
\* number of clock advances the audio clock makes in a behaviour
MaxClock == 2

(***************************************************************************)
(* Exact rational arithmetic                                                *)
(***************************************************************************)
Abs(x) == IF x < 0 THEN -x ELSE x

\* Euclid's algorithm, as a function so that its arguments are evaluated once
GcdOf[a \in Nat, b \in Nat] == IF b = 0 THEN a ELSE GcdOf[b, a % b]

Gcd(a, b) == GcdOf[a, b]

Rat(n, d) == LET g == Gcd(Abs(n), d) IN [n |-> n \div g, d |-> d \div g]

RInt(k) == [n |-> k, d |-> 1]

\* least common multiple of two denominators
Lcm(a, b) == (a \div Gcd(a, b)) * b

RAdd(x, y) ==
  LET l == Lcm(x.d, y.d) IN Rat(x.n * (l \div x.d) + y.n * (l \div y.d), l)

RSub(x, y) ==
  LET l == Lcm(x.d, y.d) IN Rat(x.n * (l \div x.d) - y.n * (l \div y.d), l)

\* a product with NaN (held as 0/0) is NaN
RMul(x, y) == IF x.d = 0 \/ y.d = 0 THEN [n |-> 0, d |-> 0] ELSE Rat(x.n * y.n, x.d * y.d)

RLt(x, y) == x.n * y.d < y.n * x.d

RLe(x, y) == x.n * y.d <= y.n * x.d

RMin(x, y) == IF RLt(y, x) THEN y ELSE x

RMax(x, y) == IF RLt(x, y) THEN y ELSE x

\* x % 1 of JavaScript: the remainder has the sign of the dividend
RMod1(x) == IF x.n >= 0 THEN Rat(x.n % x.d, x.d) ELSE Rat(-((-x.n) % x.d), x.d)

(***************************************************************************)
(* Bit operations on non-negative integers                                  *)
(***************************************************************************)
\* a & b and a | b, bit by bit; functions so that the arguments are evaluated once
BitAndOf[a \in Nat, b \in Nat] ==
  IF a = 0 \/ b = 0 THEN 0
  ELSE (a % 2) * (b % 2) + 2 * BitAndOf[a \div 2, b \div 2]

BitOrOf[a \in Nat, b \in Nat] ==
  IF a = 0 THEN b
  ELSE IF b = 0 THEN a
  ELSE (IF a % 2 = 1 \/ b % 2 = 1 THEN 1 ELSE 0) + 2 * BitOrOf[a \div 2, b \div 2]

BitAnd(a, b) == BitAndOf[a, b]

BitOr(a, b) == BitOrOf[a, b]

Shl(a, k) == a * (2 ^ k)

\* regs[k]; a missing element is undefined, which every bit operation reads as 0
Reg(regs, k) == IF k < Len(regs) THEN regs[k + 1] ELSE 0

(***************************************************************************)
(* JavaScript values of setUserControls: parseFloat, ?? and !!              *)
(* An argument is [t |-> "undefined"], [t |-> "boolean", v |-> b],          *)
(* [t |-> "number", v |-> rational] or [t |-> "string", v |-> characters].  *)
(***************************************************************************)
Undefined == [t |-> "undefined"]

Bool(b) == [t |-> "boolean", v |-> b]

Num(q) == [t |-> "number", v |-> q]

Str(s) == [t |-> "string", v |-> s]

\* the number NaN, held as 0/0
NaN == [n |-> 0, d |-> 0]

IsNaN(x) == x.d = 0

Digits == <<"0", "1", "2", "3", "4", "5", "6", "7", "8", "9">>

IsDigit(c) == \E k \in 1..10 : Digits[k] = c

DigitVal(c) == (CHOOSE k \in 1..10 : Digits[k] = c) - 1

\* the longest run of digits of s from position p: <<value, number of digits>>
RECURSIVE ScanDigits(_, _, _, _)
ScanDigits(s, p, acc, cnt) ==
  IF p <= Len(s) /\ IsDigit(s[p])
  THEN ScanDigits(s, p + 1, acc * 10 + DigitVal(s[p]), cnt + 1)
  ELSE <<acc, cnt>>

\* parseFloat of a string: optional sign, digits, optional fraction; the rest
\* of the string is ignored; NaN when no digit is found
ParseFloatStr(s) ==
  LET neg  == Len(s) >= 1 /\ s[1] = "-"
      p0   == IF Len(s) >= 1 /\ (s[1] = "-" \/ s[1] = "+") THEN 2 ELSE 1
      ip   == ScanDigits(s, p0, 0, 0)
      p1   == p0 + ip[2]
      dot  == p1 <= Len(s) /\ s[p1] = "."
      fp   == IF dot THEN ScanDigits(s, p1 + 1, 0, 0) ELSE <<0, 0>>
      mag  == RAdd(RInt(ip[1]), Rat(fp[1], 10 ^ fp[2]))
  IN IF ip[2] + fp[2] = 0 THEN NaN
     ELSE IF neg THEN RSub(RInt(0), mag) ELSE mag

\* parseFloat(v): a number converts to its decimal string and parses back to
\* the same number
parseFloat(v) ==
  CASE v.t = "number" -> v.v
    [] v.t = "string" -> ParseFloatStr(v.v)
    [] OTHER -> NaN

\* a ?? b
Coalesce(a, b) == IF a.t = "undefined" THEN b ELSE a

\* !!v
ToBoolean(v) ==
  CASE v.t = "boolean" -> v.v
    [] v.t = "number" -> ~IsNaN(v.v) /\ v.v.n # 0
    [] v.t = "string" -> Len(v.v) > 0
    [] OTHER -> FALSE

(***************************************************************************)
(* AYReplayer: construction                                                 *)
(***************************************************************************)
\* chip clock in Hz
clock == 1000000

\* microseconds per second: the unit in which times are held
UsPerSec == 1000000

mkVoice == [freq |-> RInt(440), gain |-> RInt(0), mute |-> FALSE, volUser |-> RInt(1)]

mkNoise == [bp |-> 4000, gain |-> RInt(0), volUser |-> Rat(15, 100)]

\* this.env of the constructor; periodSec 0.05 s, lastUpdate 0 s
EnvInit == [periodSec |-> 50000, shape |-> 0, phase |-> RInt(0), level |-> RInt(0),
            lastUpdate |-> 0]

(***************************************************************************)
(* envelopeLevel(phase, shape)                                              *)
(***************************************************************************)
\* the values of this.env.phase
Phases == [n : Int, d : Nat]

\* a function, so that the phase is evaluated once
envelopeLevelOf[phase \in Phases, shape \in Nat] ==
  LET Cont == BitAnd(shape, 8) # 0
      Att  == BitAnd(shape, 4) # 0
      Alt  == BitAnd(shape, 2) # 0
      Hold == BitAnd(shape, 1) # 0
      p    == RMod1(phase)
      half == Rat(1, 2)
      lvl  == IF ~Alt /\ ~Hold /\ Att THEN p
              ELSE IF ~Alt /\ Hold /\ Att THEN RMin(RInt(1), RMul(p, RInt(2)))
              ELSE IF Alt /\ ~Hold
                   THEN IF RLt(p, half) THEN RMul(p, RInt(2))
                        ELSE RSub(RInt(1), RMul(RSub(p, half), RInt(2)))
              ELSE RSub(RInt(1), p)
  IN RMax(RInt(0), RMin(RInt(1), lvl))

envelopeLevel(phase, shape) == envelopeLevelOf[phase, shape]

(***************************************************************************)
(* AYReplayer.applyRegs(regs), called at audio-clock time now, on the       *)
(* synthesis state s = [A, B, C, Noise, env]                                *)
(***************************************************************************)
\* TonePeriod without the mask of the coarse register
TonePeriodUnmasked(regs, lo, hi) == BitOr(Shl(Reg(regs, hi), 8), Reg(regs, lo))

\* 12-bit tone period of the register pair (lo, hi)
TonePeriod(regs, lo, hi) == BitOr(Shl(BitAnd(Reg(regs, hi), 15), 8), Reg(regs, lo))

\* perX ? clock / (16 * perX) : 0.0001
ToneFreq(per) == IF per # 0 THEN Rat(clock, 16 * per) ELSE Rat(1, 10000)

\* EnvPeriod without the floor of 1
EnvPeriodZero(regs) == BitOr(Shl(Reg(regs, 12), 8), Reg(regs, 11))

\* ((regs[12] << 8) | regs[11]) || 1
EnvPeriod(regs) ==
  LET v == BitOr(Shl(Reg(regs, 12), 8), Reg(regs, 11)) IN IF v = 0 THEN 1 ELSE v

\* envPeriod / clock * 16 * 2, in microseconds
PeriodSec(regs) == EnvPeriod(regs) * (UsPerSec \div clock) * 16 * 2

\* the envelope update of applyRegs (re-trigger, or advance the phase)
EnvStep(env, regs, now) ==
  LET envShape  == BitAnd(Reg(regs, 13), 15)
      periodSec == PeriodSec(regs)
  IN IF envShape # env.shape \/ Abs(env.periodSec - periodSec) > 1
     THEN [periodSec |-> periodSec, shape |-> envShape, phase |-> RInt(0),
           level |-> RInt(1), lastUpdate |-> now]
     ELSE LET dt    == now - (IF env.lastUpdate = 0 THEN now ELSE env.lastUpdate)
              per   == IF env.periodSec = 0 THEN 1000 ELSE env.periodSec
              phase == RAdd(env.phase, Rat(dt, per))
          IN [env EXCEPT !.lastUpdate = now, !.phase = phase,
                         !.level = envelopeLevel(phase, env.shape)]

\* ToneOn without the mute flag
ToneOnIgnoresMute(mixer, bit, volReg, mute) ==
  BitAnd(mixer, bit) = 0 /\ (BitAnd(volReg, 16) # 0 \/ BitAnd(volReg, 15) > 0)

\* toneXOn: tone-disable bit of the channel clear, envelope flag or volume > 0,
\* not muted
ToneOn(mixer, bit, volReg, mute) ==
  BitAnd(mixer, bit) = 0 /\ (BitAnd(volReg, 16) # 0 \/ BitAnd(volReg, 15) > 0) /\ ~mute

\* EnvGain that always takes the static level
EnvGainStatic(volReg, level) == Rat(BitAnd(volReg, 15), 15)

\* envGainX
EnvGain(volReg, level) ==
  IF BitAnd(volReg, 16) # 0 THEN level ELSE Rat(BitAnd(volReg, 15), 15)

\* the value given to X.gain.gain.setValueAtTime
ToneGain(mixer, bit, volReg, v, level) ==
  IF ToneOn(mixer, bit, volReg, v.mute) THEN RMul(EnvGain(volReg, level), v.volUser)
  ELSE RInt(0)

\* noiseOn
NoiseOn(s, regs) ==
  LET mixer == Reg(regs, 7)
      on(bit, volReg, mute) ==
        BitAnd(mixer, bit) = 0 /\ (BitAnd(volReg, 16) # 0 \/ BitAnd(volReg, 15) > 0) /\ ~mute
  IN \/ on(8, Reg(regs, 8), s.A.mute)
     \/ on(16, Reg(regs, 9), s.B.mute)
     \/ on(32, Reg(regs, 10), s.C.mute)

applyRegs(s, regs, now) ==
  LET mixer == Reg(regs, 7)
      env2  == EnvStep(s.env, regs, now)
      nf    == BitAnd(Reg(regs, 6), 31) * 200 + 1000
  IN [A |-> [s.A EXCEPT !.freq = ToneFreq(TonePeriod(regs, 0, 1)),
                        !.gain = ToneGain(mixer, 1, Reg(regs, 8), s.A, env2.level)],
      B |-> [s.B EXCEPT !.freq = ToneFreq(TonePeriod(regs, 2, 3)),
                        !.gain = ToneGain(mixer, 2, Reg(regs, 9), s.B, env2.level)],
      C |-> [s.C EXCEPT !.freq = ToneFreq(TonePeriod(regs, 4, 5)),
                        !.gain = ToneGain(mixer, 4, Reg(regs, 10), s.C, env2.level)],
      Noise |-> [s.Noise EXCEPT !.bp = nf,
                   !.gain = IF NoiseOn(s, regs) THEN s.Noise.volUser ELSE RInt(0)],
      env |-> env2]

(***************************************************************************)
(* AYReplayer.setUserControls({muteA, muteB, muteC, volA, volB, volC, volN})*)
(***************************************************************************)
\* UserVol that scales the current volume by the argument
UserVolScales(vol, volUser) ==
  IF vol.t = "undefined" THEN volUser ELSE RMul(parseFloat(vol), volUser)

\* parseFloat(vol ?? volUser)
UserVol(vol, volUser) == parseFloat(Coalesce(vol, Num(volUser)))

setUserControls(s, arg) ==
  [s EXCEPT !.A.mute = ToBoolean(arg.muteA),
            !.B.mute = ToBoolean(arg.muteB),
            !.C.mute = ToBoolean(arg.muteC),
            !.A.volUser = UserVol(arg.volA, s.A.volUser),
            !.B.volUser = UserVol(arg.volB, s.B.volUser),
            !.C.volUser = UserVol(arg.volC, s.C.volUser),
            !.Noise.volUser = UserVol(arg.volN, s.Noise.volUser)]

(***************************************************************************)
(* Inputs                                                                   *)
(***************************************************************************)
\* a 14-register frame from its fields
MkFrame(toneA, toneB, toneC, noise, mixer, volA, volB, volC, envP, shape) ==
  <<toneA % 256, toneA \div 256, toneB % 256, toneB \div 256, toneC % 256, toneC \div 256,
    noise, mixer, volA, volB, volC, envP % 256, envP \div 256, shape>>

\* static volume 15 on A, mixer enabling only tone A, all other registers zero
FrameToneA == MkFrame(0, 0, 0, 0, 62, 15, 0, 0, 0, 0)

\* static volume on B and C, mixer enabling tones B, C and the noise of C
FrameNoiseC == MkFrame(0, 284, 61441, 3, 25, 0, 15, 8, 0, 0)

\* the Track of n frames that starts with frame f and alternates with frame g
Alternating(n, f, g) == [k \in 1..n |-> IF k % 2 = 1 THEN f ELSE g]

\* the Tracks load is given: of every length up to MaxLen, the two alternations
TrackSet ==
  {Alternating(n, FrameToneA, FrameNoiseC) : n \in 0..MaxLen}
    \cup {Alternating(n, FrameNoiseC, FrameToneA) : n \in 0..MaxLen}

\* the rate of every Track the page loads (meta.rate of parseYM)
PageRate == 50

\* tick rates in Hz of the Tracks given to load directly
RateSet == {25, 50, 100}

\* seconds per frame of the slowest rate, in microseconds
MaxSpf == UsPerSec \div 25

\* audio-clock advances between two handlers, in microseconds
ClockSteps == {25000}

\* the audio clock of the model stops at MaxClock polls of 25 ms
MaxTime == MaxClock * 25000

UiArg(muteA, muteB, muteC, volA, volB, volC, volN) ==
  [muteA |-> muteA, muteB |-> muteB, muteC |-> muteC,
   volA |-> volA, volB |-> volB, volC |-> volC, volN |-> volN]

\* setUserControls arguments of the transport specifications
UiArgs ==
  { UiArg(Bool(FALSE), Bool(FALSE), Bool(TRUE), Str(<<"0", ".", "5">>), Str(<<"1">>),
          Str(<<"1">>), Str(<<"0", ".", "1", "5">>)),
    UiArg(Undefined, Undefined, Undefined, Undefined, Undefined, Undefined, Undefined) }

(***************************************************************************)
(* ymAyParser.js: loadAndParse(file) and parseYM(bytes)                     *)
(***************************************************************************)
\* bytes[k] under String.fromCharCode and <<: past the end it counts as 0
ByteAt(bytes, k) == IF k < Len(bytes) THEN bytes[k + 1] ELSE 0

\* bytes.slice(a, b): both ends are cut to the length of bytes
Slice(bytes, a, b) ==
  LET lo == IF a < Len(bytes) THEN a ELSE Len(bytes)
      hi == IF b < Len(bytes) THEN b ELSE Len(bytes)
  IN SubSeq(bytes, lo + 1, hi)

\* the char codes of 'YM5!', 'YM6!', 'YM3!'
SupportedTags == {<<89, 77, 53, 33>>, <<89, 77, 54, 33>>, <<89, 77, 51, 33>>}

\* the char codes of 'ZXAYEMUL'
ZXAYEMUL == <<90, 88, 65, 89, 69, 77, 85, 76>>

regsPerFrame == 16

\* let offset = 64
HeaderOffset == 64

\* offset = 16
FallbackOffset == 16

\* throw new Error(msg)
Thrown(msg) ==
  [ok |-> FALSE, error |-> msg, version |-> <<>>, count |-> 0, rate |-> 0, frames |-> <<>>]

\* return { meta: { version, frames, rate }, frames: out }
Returned(version, count, r, out) ==
  [ok |-> TRUE, error |-> "", version |-> version, count |-> count, rate |-> r, frames |-> out]

\* (bytes[4] << 24) | (bytes[5] << 16) | (bytes[6] << 8) | bytes[7], a signed
\* 32-bit integer
FrameCount(bytes) ==
  LET b4 == ByteAt(bytes, 4)
  IN (IF b4 >= 128 THEN b4 - 256 ELSE b4) * 16777216
       + ByteAt(bytes, 5) * 65536 + ByteAt(bytes, 6) * 256 + ByteAt(bytes, 7)

parseYM(bytes) ==
  LET tag    == <<ByteAt(bytes, 0), ByteAt(bytes, 1), ByteAt(bytes, 2), ByteAt(bytes, 3)>>
      count  == FrameCount(bytes)
      offset == IF Len(bytes) < HeaderOffset + count * regsPerFrame
                THEN FallbackOffset
                ELSE HeaderOffset
      out    == [f \in 1..count |->
                   Slice(bytes, offset + (f - 1) * regsPerFrame,
                         offset + (f - 1) * regsPerFrame + regsPerFrame)]
  IN IF tag \notin SupportedTags
     THEN Thrown("YM version non supportee")
     ELSE Returned(tag, count, PageRate, out)

\* a file: the extension of its lower-cased name, its bytes; for an archive,
\* whether LHA.read finds a .ym entry, and bytes is what LHA.unpack gives of it
File(ext, entry, bytes) == [ext |-> ext, entry |-> entry, bytes |-> bytes]

loadAndParse(f) ==
  IF f.ext \in {"lzh", "lha"}
  THEN IF ~f.entry THEN Thrown("Archive LHA/LZH sans .YM interne") ELSE parseYM(f.bytes)
  ELSE IF f.ext = "ym"
  THEN parseYM(f.bytes)
  ELSE IF f.ext = "ay"
  THEN IF Slice(f.bytes, 0, 8) = ZXAYEMUL
       THEN Thrown("AY (ZXAYEMUL) detecte")
       ELSE Thrown("Fichier AY non reconnu")
  ELSE Thrown("Format non supporte")

\* no file chosen: ui.file.files[0] is undefined
NoFile == File("", FALSE, <<>>)

\* no loadAndParse call made yet
NoLoad == [pending |-> FALSE, f |-> NoFile, res |-> Thrown("")]

\* the bytes of a YM file: tag, frame count count in bytes 4..7, a zero header
\* up to byte 64, then 16-byte frames that alternate FrameToneA and FrameNoiseC;
\* the whole cut or padded to len bytes
YmBytes(tag, count, len) ==
  [k \in 1..len |->
     IF k <= 4 THEN tag[k]
     ELSE IF k <= 7 THEN 0
     ELSE IF k = 8 THEN count
     ELSE IF k <= 64 THEN 0
     ELSE LET r == (k - 65) % 16
              f == IF ((k - 65) \div 16) % 2 = 0 THEN FrameToneA ELSE FrameNoiseC
          IN IF r < Len(f) THEN f[r + 1] ELSE 0]

\* file lengths for a declared count of c frames: whole, with trailing bytes,
\* one byte short, ten bytes short, and cut inside the header
FileLens(c) ==
  {64 + 16 * c, 64 + 16 * c + 3, 64 + 16 * c - 1, 64 + 16 * c - 10, 40, 16, 6}

\* the tags of the files: the three supported ones, 'YM2!', 'ZXAY'
FileTags == SupportedTags \cup {<<89, 77, 50, 33>>, <<90, 88, 65, 89>>}

\* the files of SpecParse
ParseFiles ==
  {File(ext, TRUE, YmBytes(tag, c, len)) :
     ext \in {"ym", "lzh"}, tag \in FileTags,
     c \in 0..MaxLen, len \in UNION {FileLens(n) : n \in 0..MaxLen}}
  \cup {File("lha", FALSE, <<>>), File("ay", FALSE, ZXAYEMUL), File("ay", FALSE, <<1, 2>>),
        File("txt", FALSE, <<89, 77, 53, 33>>)}

\* the files of SpecLoad: two whole Tracks, a wrong tag, an unsupported format
PageFiles ==
  {File("ym", TRUE, YmBytes(<<89, 77, 53, 33>>, MaxLen, 64 + 16 * MaxLen)),
   File("ym", TRUE, YmBytes(<<89, 77, 54, 33>>, 1, 64 + 16)),
   File("ym", TRUE, YmBytes(<<89, 77, 50, 33>>, 1, 64 + 16)),
   File("ay", FALSE, ZXAYEMUL)}

(***************************************************************************)
(* State                                                                    *)
(***************************************************************************)
VARIABLES
  driver,       \* which page script drives playback: "play" (replayer.play) or
                \* "lookahead" (startFrames)
  frames,       \* this.frames: the Track, a sequence of register frames
  rate,         \* this.rate
  timer,        \* this.timer: 0 is null, 1 a live interval
  i,            \* the frame counter of play's callback
  A, B, C,      \* the tone voices
  Noise,        \* the noise voice
  env,          \* this.env
  currentTime,  \* ctx.currentTime
  lookaheadId,  \* 0 is null, 1 a live interval
  frameIdx,
  frameRate,
  lkFrames,     \* the frames parameter startFrames' callback closes over
  nextTime,     \* nextTime of startFrames' callback
  applied,      \* history: indices of the frames applied since the last start
  stops,        \* history: Playing -> Stopped transitions since the last start
  timerTrack,   \* history: this.frames when play() started the live timer
  last,         \* history: the last operation, the frames it applied
  startTime,    \* history: ctx.currentTime when startFrames was last called
  file,         \* ui.file.files[0]: the file chosen in the page's file input
  loading       \* the loadAndParse call ui.load.onclick awaits, and its outcome

vars == <<driver, frames, rate, timer, i, A, B, C, Noise, env, currentTime, lookaheadId,
          frameIdx, frameRate, lkFrames, nextTime, applied, stops, timerTrack, last,
          startTime, file, loading>>

pageVars == <<file, loading>>

synthVars == <<A, B, C, Noise, env>>

replayerVars == <<frames, rate, timer, i>>

lookaheadVars == <<lookaheadId, frameIdx, frameRate, lkFrames, nextTime>>

Synth == [A |-> A, B |-> B, C |-> C, Noise |-> Noise, env |-> env]

SetSynth(s) ==
  /\ A' = s.A
  /\ B' = s.B
  /\ C' = s.C
  /\ Noise' = s.Noise
  /\ env' = s.env

\* the record of an operation: its name, the number of frames it applied, the
\* registers of the last frame it applied, whether it took its early return
Op(name, n, regs, noop) == [op |-> name, n |-> n, regs |-> regs, noop |-> noop]

Init ==
  /\ driver \in {"play", "lookahead"}
  /\ frames = <<>>
  /\ rate = 50
  /\ timer = 0
  /\ i = 0
  /\ A = mkVoice
  /\ B = mkVoice
  /\ C = mkVoice
  /\ Noise = mkNoise
  /\ env = EnvInit
  /\ currentTime = 0
  /\ lookaheadId = 0
  /\ frameIdx = 0
  /\ frameRate = 50
  /\ lkFrames = <<>>
  /\ nextTime = 0
  /\ applied = <<>>
  /\ stops = 0
  /\ timerTrack = <<>>
  /\ last = Op("new", 0, <<>>, FALSE)
  /\ startTime = 0
  /\ file = NoFile
  /\ loading = NoLoad

(***************************************************************************)
(* AYReplayer transport: load, play, stop and play's interval callback      *)
(***************************************************************************)
load(track, r) ==
  /\ frames' = track
  /\ rate' = r
  /\ last' = Op("load", 0, <<>>, FALSE)
  /\ UNCHANGED <<startTime, driver, timer, i, synthVars, currentTime, lookaheadVars, applied, stops,
                 timerTrack>>

\* play without the test of this.timer
playRestarts ==
  /\ driver = "play"
  /\ IF Len(frames) = 0
     THEN /\ last' = Op("play", 0, <<>>, TRUE)
          /\ UNCHANGED <<timer, i, applied, stops, timerTrack>>
     ELSE /\ timer' = 1
          /\ i' = 0
          /\ applied' = <<>>
          /\ stops' = 0
          /\ timerTrack' = frames
          /\ last' = Op("play", 0, <<>>, FALSE)
  /\ UNCHANGED <<pageVars, startTime, driver, frames, rate, synthVars, currentTime, lookaheadVars>>

play ==
  /\ driver = "play"
  /\ IF timer # 0 \/ Len(frames) = 0
     THEN /\ last' = Op("play", 0, <<>>, TRUE)
          /\ UNCHANGED <<timer, i, applied, stops, timerTrack>>
     ELSE /\ timer' = 1
          /\ i' = 0
          /\ applied' = <<>>
          /\ stops' = 0
          /\ timerTrack' = frames
          /\ last' = Op("play", 0, <<>>, FALSE)
  /\ UNCHANGED <<pageVars, startTime, driver, frames, rate, synthVars, currentTime, lookaheadVars>>

\* stop that leaves the interval running
stopKeepsTimer == UNCHANGED <<timer, i, stops, timerTrack>>

\* the state change of stop(): timer, i (the callback is dropped), stops
stop ==
  IF timer # 0
  THEN /\ timer' = 0
       /\ i' = 0
       /\ stops' = stops + 1
       /\ timerTrack' = <<>>
  ELSE UNCHANGED <<timer, i, stops, timerTrack>>

Stop ==
  /\ driver = "play"
  /\ stop
  /\ last' = Op("stop", 0, <<>>, timer = 0)
  /\ UNCHANGED <<pageVars, startTime, driver, frames, rate, synthVars, currentTime, lookaheadVars, applied>>

\* TimerTick with the frame counter advanced twice per frame
TimerTickSkips ==
  /\ timer # 0
  /\ IF i >= Len(frames)
     THEN /\ stop
          /\ last' = Op("tick", 0, <<>>, FALSE)
          /\ UNCHANGED <<synthVars, applied>>
     ELSE /\ SetSynth(applyRegs(Synth, frames[i + 1], currentTime))
          /\ i' = i + 2
          /\ applied' = Append(applied, i)
          /\ last' = Op("tick", 1, frames[i + 1], FALSE)
          /\ UNCHANGED <<timer, stops, timerTrack>>
  /\ UNCHANGED <<pageVars, startTime, driver, frames, rate, currentTime, lookaheadVars>>

\* the callback of play's setInterval
TimerTick ==
  /\ timer # 0
  /\ IF i >= Len(frames)
     THEN /\ stop
          /\ last' = Op("tick", 0, <<>>, FALSE)
          /\ UNCHANGED <<synthVars, applied>>
     ELSE /\ SetSynth(applyRegs(Synth, frames[i + 1], currentTime))
          /\ i' = i + 1
          /\ applied' = Append(applied, i)
          /\ last' = Op("tick", 1, frames[i + 1], FALSE)
          /\ UNCHANGED <<timer, stops, timerTrack>>
  /\ UNCHANGED <<pageVars, startTime, driver, frames, rate, currentTime, lookaheadVars>>

(***************************************************************************)
(* The lookahead scheduler: startFrames, stopFrames and the interval        *)
(* callback, called by the page as startFrames(replayer.frames,             *)
(* replayer.rate)                                                           *)
(***************************************************************************)
\* lead window of startFrames, 0.08 s
ahead == 80000

\* the state change of stopFrames(): lookaheadId and the dropped callback
stopFrames ==
  IF lookaheadId # 0
  THEN /\ lookaheadId' = 0
       /\ lkFrames' = <<>>
       /\ nextTime' = 0
       /\ stops' = stops + 1
  ELSE UNCHANGED <<lookaheadId, lkFrames, nextTime, stops>>

StopFrames ==
  /\ driver = "lookahead"
  /\ stopFrames
  /\ last' = Op("stopFrames", 0, <<>>, lookaheadId = 0)
  /\ UNCHANGED <<pageVars, startTime, driver, replayerVars, synthVars, currentTime, frameIdx, frameRate, applied,
                 timerTrack>>

\* StartFrames with nextTime started at 0 instead of ctx.currentTime
StartFramesAtZero ==
  /\ driver = "lookahead"
  /\ lookaheadId' = 1
  /\ frameIdx' = 0
  /\ frameRate' = rate
  /\ lkFrames' = frames
  /\ nextTime' = 0
  /\ startTime' = currentTime
  /\ applied' = <<>>
  /\ stops' = 0
  /\ last' = Op("startFrames", 0, <<>>, FALSE)
  /\ UNCHANGED <<pageVars, driver, replayerVars, synthVars, currentTime, timerTrack>>

StartFrames ==
  /\ driver = "lookahead"
  /\ lookaheadId' = 1
  /\ frameIdx' = 0
  /\ frameRate' = rate
  /\ lkFrames' = frames
  /\ nextTime' = currentTime
  /\ startTime' = currentTime
  /\ applied' = <<>>
  /\ stops' = 0
  /\ last' = Op("startFrames", 0, <<>>, FALSE)
  /\ UNCHANGED <<pageVars, driver, replayerVars, synthVars, currentTime, timerTrack>>

\* Batch that applies one frame per wake-up
BatchOne(b) ==
  IF b.nextTime < currentTime + ahead
  THEN IF b.frameIdx >= Len(lkFrames)
       THEN [b EXCEPT !.live = FALSE]
       ELSE [s |-> applyRegs(b.s, lkFrames[b.frameIdx + 1], currentTime),
             frameIdx |-> b.frameIdx + 1,
             nextTime |-> b.nextTime + (UsPerSec \div frameRate),
             live |-> TRUE,
             idx |-> Append(b.idx, b.frameIdx),
             regs |-> lkFrames[b.frameIdx + 1]]
  ELSE b

\* the while loop of the callback, from the loop state
\* b = [s, frameIdx, nextTime, live, idx, regs]
RECURSIVE Batch(_)
Batch(b) ==
  IF b.nextTime < currentTime + ahead
  THEN IF b.frameIdx >= Len(lkFrames)
       THEN [b EXCEPT !.live = FALSE]
       ELSE LET after == [s |-> applyRegs(b.s, lkFrames[b.frameIdx + 1], currentTime),
                          frameIdx |-> b.frameIdx + 1,
                          nextTime |-> b.nextTime + (UsPerSec \div frameRate),
                          live |-> TRUE,
                          idx |-> Append(b.idx, b.frameIdx),
                          regs |-> lkFrames[b.frameIdx + 1]]
            \* the loop state is evaluated once, then the loop goes on from it
            IN CHOOSE r \in {Batch(nb) : nb \in {after}} : TRUE
  ELSE b

\* the callback of startFrames' setInterval
LookaheadWake ==
  /\ lookaheadId # 0
  /\ LET b == Batch([s |-> Synth, frameIdx |-> frameIdx, nextTime |-> nextTime,
                     live |-> TRUE, idx |-> <<>>, regs |-> <<>>])
     IN /\ SetSynth(b.s)
        /\ frameIdx' = b.frameIdx
        /\ applied' = applied \o b.idx
        /\ last' = Op("wake", Len(b.idx), b.regs, FALSE)
        /\ IF b.live
           THEN /\ nextTime' = b.nextTime
                /\ UNCHANGED <<lookaheadId, lkFrames, stops>>
           ELSE /\ lookaheadId' = 0
                /\ lkFrames' = <<>>
                /\ nextTime' = 0
                /\ stops' = stops + 1
  /\ UNCHANGED <<pageVars, startTime, driver, replayerVars, currentTime, frameRate, timerTrack>>

(***************************************************************************)
(* User controls, direct frame application, the audio clock                 *)
(***************************************************************************)
SetUserControls(arg) ==
  /\ SetSynth(setUserControls(Synth, arg))
  /\ last' = Op("setUserControls", 0, <<>>, FALSE)
  /\ UNCHANGED <<pageVars, startTime, driver, replayerVars, currentTime, lookaheadVars, applied, stops, timerTrack>>

\* replayer.applyRegs(regs) called on its own
ApplyRegsCall(regs) ==
  /\ SetSynth(applyRegs(Synth, regs, currentTime))
  /\ last' = Op("applyRegs", 1, regs, FALSE)
  /\ UNCHANGED <<pageVars, startTime, driver, replayerVars, currentTime, lookaheadVars, applied, stops, timerTrack>>

\* ctx.currentTime advances by d, up to cap
AdvanceClock(d, cap) ==
  /\ currentTime + d <= cap
  /\ currentTime' = currentTime + d
  /\ last' = Op("clock", 0, <<>>, FALSE)
  /\ UNCHANGED <<pageVars, startTime, driver, replayerVars, synthVars, lookaheadVars, applied, stops, timerTrack>>

(***************************************************************************)
(* Spec: the replayer and the page under any interleaving of its handlers   *)
(***************************************************************************)
Load == \E track \in TrackSet : load(track, PageRate) /\ UNCHANGED pageVars

Controls == \E arg \in UiArgs : SetUserControls(arg)

Clock == \E d \in ClockSteps : AdvanceClock(d, MaxTime)

Next ==
  \/ Load
  \/ play
  \/ Stop
  \/ TimerTick
  \/ StartFrames
  \/ StopFrames
  \/ LookaheadWake
  \/ Controls
  \/ Clock

Spec == Init /\ [][Next]_vars

(***************************************************************************)
(* SpecRun: one playback, started once and left undisturbed, with an        *)
(* advancing audio clock and timer wake-ups that keep firing                *)
(***************************************************************************)
\* load of a Track of N >= 1 frames at any rate, on the new replayer
LoadRun ==
  /\ last.op = "new"
  /\ \E track \in TrackSet, r \in RateSet : Len(track) >= 1 /\ load(track, r)
  /\ UNCHANGED pageVars

PlayRun == last.op = "load" /\ play

StartFramesRun == last.op = "load" /\ StartFrames

Started == timer # 0 \/ lookaheadId # 0 \/ stops > 0

\* the clock runs long enough after the start for every frame to fall due
ClockRun ==
  \E d \in ClockSteps :
    AdvanceClock(d, IF Started THEN MaxTime + MaxLen * MaxSpf ELSE MaxTime)

NextRun ==
  \/ LoadRun
  \/ PlayRun
  \/ StartFramesRun
  \/ TimerTick
  \/ LookaheadWake
  \/ ClockRun

SpecRun ==
  /\ Init
  /\ [][NextRun]_vars
  /\ WF_vars(TimerTick)
  /\ WF_vars(LookaheadWake)
  /\ WF_vars(ClockRun)

(***************************************************************************)
(* SpecDecode: setUserControls and applyRegs with any argument and frame    *)
(***************************************************************************)
\* envelope on A and C (attack, period 625 = 20 ms), static 15 on B, every path
\* on; tone period 0 on B, high bits set in the coarse register of C
FrameEnv == MkFrame(284, 0, 61441, 3, 0, 16, 15, 31, 625, 4)

\* every volume 15 and every path disabled by the mixer
FrameAllOff == MkFrame(1, 2, 3, 0, 63, 15, 15, 15, 625, 4)

\* every register 255
FrameMax == MkFrame(65535, 65535, 65535, 255, 255, 255, 255, 255, 65535, 255)

\* envelope on B with static level 0, noise of B only, triangle shape
FrameEnvNoiseB == MkFrame(0, 4095, 0, 31, 47, 0, 16, 0, 625, 14)

DecodeFrames == {FrameToneA, FrameNoiseC, FrameEnv, FrameAllOff, FrameMax, FrameEnvNoiseB}

\* setUserControls arguments: omitted fields, page values, out-of-range volumes
CtlArgs ==
  UiArgs \cup
  { UiArg(Undefined, Undefined, Bool(TRUE), Undefined, Undefined, Undefined, Undefined),
    UiArg(Bool(TRUE), Bool(TRUE), Bool(FALSE), Num(RInt(2)), Str(<<"-", "1">>),
          Undefined, Num(Rat(-1, 2))),
    UiArg(Bool(FALSE), Undefined, Bool(FALSE), Undefined, Undefined,
          Str(<<"1", ".", "5", "x">>), Undefined) }

\* audio-clock advances of SpecDecode: a quarter and a whole envelope period
DecodeSteps == {5000, 20000}

InitDecode == Init /\ driver = "play"

ControlsDecode == \E arg \in CtlArgs : SetUserControls(arg)

ApplyDecode == \E regs \in DecodeFrames : ApplyRegsCall(regs)

\* the audio clock of SpecDecode stops at MaxClock half-periods of 10 ms
DecodeMaxTime == MaxClock * 10000

ClockDecode == \E d \in DecodeSteps : AdvanceClock(d, DecodeMaxTime)

NextDecode ==
  \/ ControlsDecode
  \/ ApplyDecode
  \/ ClockDecode

SpecDecode == InitDecode /\ [][NextDecode]_vars

(***************************************************************************)
(* The page's file input and ui.load.onclick. The handler awaits            *)
(* loadAndParse, so it runs in two steps: LoadClick up to the await,        *)
(* LoadResume after it. One load is in flight at a time.                    *)
(***************************************************************************)
\* the user picks file f in the file input
ChooseFile(f) ==
  /\ file' = f
  /\ UNCHANGED <<startTime, driver, replayerVars, synthVars, currentTime, lookaheadVars, applied, stops,
                 timerTrack, last, loading>>

\* ui.load.onclick up to its await: without a file it alerts and returns
LoadClick ==
  /\ ~loading.pending
  /\ IF file = NoFile
     THEN /\ last' = Op("loadClick", 0, <<>>, TRUE)
          /\ UNCHANGED loading
     ELSE /\ last' = Op("loadClick", 0, <<>>, FALSE)
          /\ loading' = [pending |-> TRUE, f |-> file, res |-> loadAndParse(file)]
  /\ UNCHANGED <<startTime, driver, replayerVars, synthVars, currentTime, lookaheadVars, applied, stops,
                 timerTrack, file>>

\* LoadResume that empties the Track when loadAndParse has thrown
LoadResumeClears ==
  /\ loading.pending
  /\ loading' = [loading EXCEPT !.pending = FALSE]
  /\ IF loading.res.ok
     THEN load(loading.res.frames, IF loading.res.rate = 0 THEN 50 ELSE loading.res.rate)
     ELSE /\ frames' = <<>>
          /\ last' = Op("loadFailed", 0, <<>>, FALSE)
          /\ UNCHANGED <<startTime, driver, rate, timer, i, synthVars, currentTime, lookaheadVars,
                         applied, stops, timerTrack>>
  /\ UNCHANGED file

\* ui.load.onclick after its await: replayer.load of the Track returned, or
\* the catch block when loadAndParse has thrown
LoadResume ==
  /\ loading.pending
  /\ loading' = [loading EXCEPT !.pending = FALSE]
  /\ IF loading.res.ok
     THEN load(loading.res.frames, IF loading.res.rate = 0 THEN 50 ELSE loading.res.rate)
     ELSE /\ last' = Op("loadFailed", 0, <<>>, FALSE)
          /\ UNCHANGED <<startTime, driver, replayerVars, synthVars, currentTime, lookaheadVars,
                         applied, stops, timerTrack>>
  /\ UNCHANGED file

(***************************************************************************)
(* SpecParse: one load of a page, of any file of ParseFiles                 *)
(***************************************************************************)
ChooseParse == file = NoFile /\ \E f \in ParseFiles : ChooseFile(f)

NextParse ==
  \/ ChooseParse
  \/ LoadClick
  \/ LoadResume

SpecParse == Init /\ [][NextParse]_vars

(***************************************************************************)
(* SpecLoad: loads of files that succeed or fail, around playbacks          *)
(***************************************************************************)
ChoosePage == \E f \in PageFiles : ChooseFile(f)

NextLoad ==
  \/ ChoosePage
  \/ LoadClick
  \/ LoadResume
  \/ play
  \/ Stop
  \/ TimerTick
  \/ StartFrames
  \/ StopFrames
  \/ LookaheadWake
  \/ Clock

SpecLoad == Init /\ [][NextLoad]_vars

(***************************************************************************)
(* SpecEnv: applyRegs of frames that drive the envelope, at any clock       *)
(***************************************************************************)
\* envelope flag on A, shape attack + hold, period of one 50 Hz tick
FrameHold == MkFrame(284, 0, 0, 0, 56, 16, 0, 0, 625, 5)

\* the same with a period of two ticks
FrameHoldSlow == MkFrame(284, 0, 0, 0, 56, 16, 0, 0, 1250, 5)

EnvFrames == {FrameEnv, FrameHold, FrameHoldSlow, FrameEnvNoiseB, FrameToneA}

\* audio-clock advances of SpecEnv: a quarter, a half and a whole tick
EnvSteps == {5000, 10000, 20000}

\* the audio clock of SpecEnv stops at MaxClock ticks of 20 ms
EnvMaxTime == MaxClock * 20000

ApplyEnv == \E regs \in EnvFrames : ApplyRegsCall(regs)

ClockEnv == \E d \in EnvSteps : AdvanceClock(d, EnvMaxTime)

NextEnv ==
  \/ ApplyEnv
  \/ ClockEnv

SpecEnv == InitDecode /\ [][NextEnv]_vars

(***************************************************************************)
(* SpecBatch: the lookahead scheduler on a Track longer than one batch      *)
(***************************************************************************)
\* frames of the Track of SpecBatch
BatchLen == 6

LoadBatch ==
  /\ load(Alternating(BatchLen, FrameToneA, FrameNoiseC), PageRate)
  /\ UNCHANGED pageVars

NextBatch ==
  \/ LoadBatch
  \/ StartFrames
  \/ StopFrames
  \/ LookaheadWake
  \/ Controls
  \/ Clock

InitBatch == Init /\ driver = "lookahead"

SpecBatch == InitBatch /\ [][NextBatch]_vars

(***************************************************************************)
(* Claims                                                                   *)
(***************************************************************************)
\* the frame indices 0..n-1 in order
C1_InOrder(n) == [k \in 1..n |-> k - 1]

C1_IsPrefix(a, b) == Len(a) <= Len(b) /\ \A k \in 1..Len(a) : a[k] = b[k]

\* at every point of an undisturbed playback the frames applied are an initial
\* part of 0..N-1 in order, the playback has stopped at most once, and once it
\* has stopped exactly the frames 0..N-1 have been applied and no timer is live
C1_RunSafe ==
  /\ C1_IsPrefix(applied, C1_InOrder(Len(frames)))
  /\ stops <= 1
  /\ stops = 1 => applied = C1_InOrder(Len(frames)) /\ timer = 0 /\ lookaheadId = 0

\* C1: a playback of a Track of N >= 1 frames at any rate, started by play() or
\* by startFrames and left undisturbed, applies the frames 0..N-1 in index
\* order exactly once each, then stops exactly once and applies nothing more
C1_PlaysEachFrameOnce ==
  /\ []C1_RunSafe
  /\ (Started ~> (stops = 1 /\ applied = C1_InOrder(Len(frames))))

\* a lookahead playback at 25 Hz that has applied both frames and stopped
C1_Witness ==
  /\ driver = "lookahead"
  /\ rate = 25
  /\ stops = 1
  /\ applied = <<0, 1>>
  /\ currentTime > 0

\* the three no-op cases, told from the state before the call
C2_NoOpCase ==
  \/ last'.op = "play" /\ (timer # 0 \/ Len(frames) = 0)
  \/ last'.op = "stop" /\ timer = 0

\* C2: play() while a playback is active, play() on an empty Track and stop()
\* while not playing change neither the timer, the frame index, the Track, the
\* rate nor the voice, noise and envelope state, and apply no frame; after
\* play() on an empty Track with no playback active, and after stop(), the
\* replayer is Stopped
C2_NoOpsChangeNothing ==
  [][C2_NoOpCase =>
       /\ UNCHANGED <<frames, rate, timer, i, A, B, C, Noise, env, applied, stops>>
       /\ last'.n = 0
       /\ (last'.op = "stop" \/ timer = 0) => timer' = 0]_vars

\* stop() called while not playing, after a playback was stopped
C2_Witness == last = Op("stop", 0, <<>>, TRUE) /\ stops = 1 /\ Len(frames) > 0

\* C3: stop() and stopFrames() leave no timer live, and while no timer is live
\* no step applies a frame: the applied frames stay as they are until a later
\* play() or startFrames
C3_NothingAppliedWhileStopped ==
  [][/\ last'.op = "stop" => timer' = 0
     /\ last'.op = "stopFrames" => lookaheadId' = 0
     /\ (timer = 0 /\ lookaheadId = 0) =>
          /\ last'.n = 0
          /\ last'.op \notin {"tick", "wake"}
          /\ applied' = applied \/ last'.op \in {"play", "startFrames"}
          /\ <<A.gain, B.gain, C.gain, Noise.gain>>' = <<A.gain, B.gain, C.gain, Noise.gain>>]_vars

\* a playback of two frames stopped by stop() after its first frame
C3_Witness ==
  /\ last = Op("stop", 0, <<>>, FALSE)
  /\ applied = <<0>>
  /\ Len(frames) = 2
  /\ timer = 0

\* C4: at most one timer is live, and the timer of play() applies frames of the
\* Track it was started for only
C4_OneTimerPerTrack ==
  /\ ~(timer # 0 /\ lookaheadId # 0)
  /\ (last.op = "tick" /\ last.n = 1) => frames = timerTrack

C5_InUnit(x) == RLe(RInt(0), x) /\ RLe(x, RInt(1))

\* C5: every gain applyRegs gives to the tone voices and to the noise voice
\* lies in [0,1], whatever volumes setUserControls was given
C5_GainsInUnit ==
  last.n > 0 => C5_InUnit(A.gain) /\ C5_InUnit(B.gain) /\ C5_InUnit(C.gain) /\ C5_InUnit(Noise.gain)

\* bit k of the byte r
C6_BitOf(r, k) == (r \div (2 ^ k)) % 2

\* the level the volume register r asks for: the envelope level when bit 4 is
\* set, else its low four bits over 15
C6_LevelOf(r) == IF C6_BitOf(r, 4) = 1 THEN env.level ELSE Rat(r % 16, 15)

\* the gain of a tone channel, from its volume register r, its tone-disable
\* bit k of the mixer m and its voice v
C6_GainOf(r, m, k, v) ==
  IF C6_BitOf(m, k) = 0 /\ ~v.mute
  THEN Rat(C6_LevelOf(r).n * v.volUser.n, C6_LevelOf(r).d * v.volUser.d)
  ELSE RInt(0)

\* C6: after applyRegs the gain of each tone channel is its level (envelope
\* level or static level / 15) times its user volume when its tone-disable bit
\* is clear and it is not muted, else 0; static volume 15 on A with only tone A
\* enabled gives A its user volume and 0 to B, C and the noise
C6_ToneGain ==
  last.n > 0 =>
    /\ A.gain = C6_GainOf(last.regs[9], last.regs[8], 0, A)
    /\ B.gain = C6_GainOf(last.regs[10], last.regs[8], 1, B)
    /\ C.gain = C6_GainOf(last.regs[11], last.regs[8], 2, C)
    /\ (last.regs = FrameToneA /\ ~A.mute) =>
         /\ A.gain = A.volUser
         /\ B.gain = RInt(0)
         /\ C.gain = RInt(0)
         /\ Noise.gain = RInt(0)

\* a frame with the envelope flag on A applied at envelope level 1/4 and user
\* volume 1/2
C6_Witness ==
  /\ last.n > 0
  /\ last.regs = FrameEnv
  /\ env.level = Rat(1, 4)
  /\ A.volUser = Rat(1, 2)
  /\ A.gain = Rat(1, 8)

\* channel with volume register r, voice v and noise-disable bit k of the mixer
\* m feeds the noise: bit clear, not muted, level non-zero
C7_FeedsNoise(r, m, k, v) == C6_BitOf(m, k) = 0 /\ ~v.mute /\ C6_LevelOf(r).n # 0

\* C7: after applyRegs the noise gain is the noise user volume if some channel
\* has its noise-disable bit clear, is not muted and has a non-zero level, and
\* is 0 otherwise
C7_NoiseGain ==
  last.n > 0 =>
    Noise.gain =
      IF \/ C7_FeedsNoise(last.regs[9], last.regs[8], 3, A)
         \/ C7_FeedsNoise(last.regs[10], last.regs[8], 4, B)
         \/ C7_FeedsNoise(last.regs[11], last.regs[8], 5, C)
      THEN Noise.volUser
      ELSE RInt(0)

\* the frequency the claim gives the period registers (lo, hi) of frame regs
C8_FreqOf(regs, lo, hi) ==
  LET period == (regs[hi + 1] % 16) * 256 + regs[lo + 1]
  IN IF period # 0 THEN Rat(1000000, 16 * period) ELSE Rat(1, 10000)

\* C8: after applyRegs the frequency of each tone channel is
\* 1000000 / (16 x period) of its 12-bit period, 0.0001 when the period is 0,
\* hence finite and strictly positive
C8_ToneFrequency ==
  last.n > 0 =>
    /\ A.freq = C8_FreqOf(last.regs, 0, 1)
    /\ B.freq = C8_FreqOf(last.regs, 2, 3)
    /\ C.freq = C8_FreqOf(last.regs, 4, 5)
    /\ \A v \in {A, B, C} : v.freq.n > 0 /\ v.freq.d > 0

\* a frame with period 0 on B and a coarse register of C with high bits set
C8_Witness ==
  /\ last.n > 0
  /\ last.regs = FrameEnv
  /\ B.freq = Rat(1, 10000)
  /\ C.freq = RInt(62500)

\* C9: every frame applied while a channel is muted gives that channel gain 0,
\* and only setUserControls changes a mute flag
C9_MutedGainZero ==
  /\ [](last.n > 0 => \A v \in {A, B, C} : v.mute => v.gain = RInt(0))
  /\ [][<<A.mute, B.mute, C.mute>>' # <<A.mute, B.mute, C.mute>>
          => last'.op = "setUserControls"]_vars

\* a frame with every path enabled applied while C is muted
C9_Witness ==
  /\ last.n > 0
  /\ last.regs = FrameEnv
  /\ C.mute
  /\ C.gain = RInt(0)
  /\ B.gain = RInt(1)

\* C10: from every state and for every argument, setUserControls called twice
\* leaves the state one call leaves, and a frame applied then (static levels,
\* envelope levels) sets the same state
C10_Idempotent ==
  \A arg \in CtlArgs :
    LET once  == setUserControls(Synth, arg)
        twice == setUserControls(once, arg)
    IN /\ twice = once
       /\ \A regs \in {FrameEnv, FrameToneA} :
            applyRegs(twice, regs, currentTime) = applyRegs(once, regs, currentTime)

\* setUserControls has stored an out-of-range volume and a parsed string
C10_Witness ==
  /\ last.op = "setUserControls"
  /\ A.volUser = RInt(2)
  /\ B.volUser = RInt(-1)
  /\ A.mute

\* bytes cut short of the 64 + 16 x count bytes the declared frame count
\* requires (as a quotient, so that no count overflows)
C11_Truncated(bytes) ==
  FrameCount(bytes) > 0 /\ (Len(bytes) - 64) \div 16 < FrameCount(bytes)

C11_WrongTag(bytes) ==
  <<ByteAt(bytes, 0), ByteAt(bytes, 1), ByteAt(bytes, 2), ByteAt(bytes, 3)>>
    \notin SupportedTags

\* C11: loadAndParse of a file whose data is truncated or whose tag is wrong
\* throws; a Track it returns has no frame of fewer than 14 register bytes and
\* no fewer frames than the declared count
C11_NoPartialTrack ==
  loading.f # NoFile =>
    /\ (C11_Truncated(loading.f.bytes) \/ C11_WrongTag(loading.f.bytes)) => ~loading.res.ok
    /\ loading.res.ok =>
         /\ \A k \in 1..Len(loading.res.frames) : Len(loading.res.frames[k]) >= 14
         /\ Len(loading.res.frames) >= FrameCount(loading.f.bytes)

\* the step of ui.load.onclick that follows a loadAndParse that has thrown
C12_FailedLoad == loading.pending /\ ~loading.res.ok /\ ~loading'.pending

\* C12: a load that fails leaves the Track and the rate as they were, and a
\* play() that follows it starts the timer on that Track
C12_FailedLoadKeepsTrack ==
  [][/\ C12_FailedLoad => UNCHANGED <<frames, rate, timer, i, lookaheadVars>>
     /\ (last.op = "loadFailed" /\ last'.op = "play" /\ Len(frames) > 0 /\ timer = 0) =>
          (timer' # 0 /\ timerTrack' = frames /\ frames' = frames)]_vars

\* play() started on the Track of an earlier load, after a load of a file with
\* a wrong tag has failed
C12_Witness ==
  /\ last = Op("play", 0, <<>>, FALSE)
  /\ ~loading.pending
  /\ loading.f.ext = "ym"
  /\ ~loading.res.ok
  /\ Len(frames) = MaxLen
  /\ timerTrack = frames
  /\ timer = 1

\* C13: every step that stops a playback (stop(), stopFrames(), the end of the
\* Track) leaves the envelope as at construction and the gains at 0, and no
\* step that applies a frame leaves the envelope as at construction
C13_StopResetsSynth ==
  [][/\ ((timer # 0 /\ timer' = 0) \/ (lookaheadId # 0 /\ lookaheadId' = 0)) =>
          /\ env' = EnvInit
          /\ A'.gain = RInt(0) /\ B'.gain = RInt(0) /\ C'.gain = RInt(0)
          /\ Noise'.gain = RInt(0)
     /\ last'.n > 0 => env' # EnvInit]_vars

\* the envelope period a frame asks for, in microseconds
C14_Period(regs) ==
  LET p == regs[13] * 256 + regs[12] IN (IF p = 0 THEN 1 ELSE p) * 32

\* the frame's shape or period differs from the stored one
C14_Changed(regs) == regs[14] % 16 # env.shape \/ C14_Period(regs) # env.periodSec

\* C14: applyRegs re-triggers the envelope (phase 0, level 1, last update now,
\* shape and period of the frame) exactly when the frame's shape or period
\* differs from the stored one; otherwise it keeps shape and period, adds
\* (now - last update) / period to the phase, sets last update to now and the
\* level to that of the new phase
C14_EnvelopeUpdate ==
  [][last'.op = "applyRegs" =>
       IF C14_Changed(last'.regs)
       THEN env' = [periodSec |-> C14_Period(last'.regs), shape |-> last'.regs[14] % 16,
                    phase |-> RInt(0), level |-> RInt(1), lastUpdate |-> currentTime]
       ELSE /\ env'.shape = env.shape
            /\ env'.periodSec = env.periodSec
            /\ env'.phase = RAdd(env.phase, Rat(currentTime - env.lastUpdate, env.periodSec))
            /\ env'.lastUpdate = currentTime
            /\ env'.level = envelopeLevel(env'.phase, env.shape)]_vars

\* C15: a frame applied after another with the shape and period unchanged
\* leaves the envelope phase strictly greater than it was
C15_PhaseIncreases ==
  [][(last'.op = "applyRegs" /\ env # EnvInit /\ ~C14_Changed(last'.regs)) =>
       RLt(env.phase, env'.phase)]_vars

\* envelope flag on A, shape attack without hold or alternate, period of one
\* 50 Hz tick
C16_AttackFrame(regs) ==
  /\ (regs[9] \div 16) % 2 = 1
  /\ regs[14] % 16 \in {4, 12}
  /\ C14_Period(regs) = 20000

\* C16: over consecutive attack frames of a period of one tick the envelope
\* level is 0 at the first, does not decrease from one to the next, and is at
\* most 1
C16_AttackRises ==
  [][(last'.op = "applyRegs" /\ C16_AttackFrame(last'.regs)) =>
       /\ RLe(env'.level, RInt(1))
       /\ C14_Changed(last'.regs) => env'.level = RInt(0)
       /\ ~C14_Changed(last'.regs) => RLe(env.level, env'.level)]_vars

\* C17: a frame of shape attack + hold without alternate, applied with the
\* shape and period unchanged, never lowers the envelope level
C17_HoldNeverFalls ==
  [][(last'.op = "applyRegs" /\ last'.regs[14] % 16 \in {5, 13}
        /\ ~C14_Changed(last'.regs)) =>
       RLe(env.level, env'.level)]_vars

\* C18: the envelope level is in [0,1] and the envelope period is strictly
\* positive; a frame whose envelope period registers are zero leaves the period
\* of a register value of 1
C18_LevelAndPeriod ==
  /\ RLe(RInt(0), env.level)
  /\ RLe(env.level, RInt(1))
  /\ env.periodSec > 0
  /\ (last.n > 0 /\ last.regs[12] = 0 /\ last.regs[13] = 0) => env.periodSec = 32

\* a frame with zero envelope period registers applied twice, the clock
\* advanced in between
C18_Witness ==
  /\ last.n > 0
  /\ last.regs = FrameToneA
  /\ env.periodSec = 32
  /\ env.phase.n > 0

\* C19: while a timer is live its frame index is at most the length of the
\* Track
C19_IndexInTrack ==
  /\ timer # 0 => i <= Len(frames)
  /\ lookaheadId # 0 => frameIdx <= Len(lkFrames)

\* C20: a wake-up of the lookahead scheduler applies at most
\* leadWindow / tickPeriod frames
C20_BatchBounded ==
  last.op = "wake" => last.n * (1000000 \div frameRate) <= 80000

\* C21: while the lookahead scheduler is live, nextTime is the audio-clock time
\* of its start plus tickPeriod times the number of frames applied since, at
\* whatever times the wake-ups fire; no wake-up lowers it
C21_VirtualTickTime ==
  /\ [](lookaheadId # 0 =>
          /\ frameIdx = Len(applied)
          /\ nextTime = startTime + Len(applied) * (1000000 \div frameRate))
  /\ [][(last'.op = "wake" /\ lookaheadId' # 0) => nextTime' >= nextTime]_vars

\* a playback started at 25 ms whose frames were applied by two wake-ups, at
\* 25 ms and at 50 ms
C21_Witness ==
  /\ lookaheadId # 0
  /\ startTime = 25000
  /\ currentTime = 50000
  /\ last.op = "wake"
  /\ last.n = 2
  /\ applied = <<0, 1, 2, 3, 4, 5>>
  /\ nextTime = 145000

\* C22: a wake-up ends either with the scheduler stopped, every frame of its
\* Track applied, or with nextTime at least the lead window ahead of the audio
\* clock
C22_LeadWindowFilled ==
  [][last'.op = "wake" =>
       \/ lookaheadId' = 0 /\ frameIdx' = Len(lkFrames)
       \/ lookaheadId' # 0 /\ nextTime' >= currentTime' + 80000]_vars

\* a wake-up that ended with frames of the Track remaining
C22_Witness ==
  /\ last.op = "wake"
  /\ last.n = 4
  /\ lookaheadId # 0
  /\ frameIdx < Len(lkFrames)
  /\ nextTime >= currentTime + 80000

====
